---- MODULE Spec2Model ----
(***************************************************************************)
(* Model of the clip backend: the request surface and job tracker of       *)
(* main.py (create_clip, process_video_clip, save_job_status,              *)
(* get_clip_status) and the segment extractor of core.py                   *)
(* (YouTubeSegmentDownloader: _time_to_seconds, _validate_timestamps,      *)
(* download_segment).                                                      *)
(*                                                                         *)
(* Each job is one background task; its position in the code is pc[j].     *)
(* The two stores every task shares are the job-record directory (jobs/)   *)
(* and the output directory (downloads/).  The provider (yt_dlp), the      *)
(* cutter (ffmpeg) and the operating system are environments: wherever a   *)
(* call into them can succeed or fail, the model takes either branch.      *)
(***************************************************************************)
EXTENDS Integers, Sequences, FiniteSets, TLC

\* ------------------------------------------------------------------------
\* Bounds of the model
\* ------------------------------------------------------------------------

\* number of clip requests submitted in one behaviour
NumJobs == 2

\* most colon-separated components of a text given to _time_to_seconds
MaxParts == 4

\* largest number of seconds given to _validate_timestamps
MaxSeconds == 4

Jobs == 1..NumJobs

\* ------------------------------------------------------------------------
\* Values
\* ------------------------------------------------------------------------

\* Python's None, for the Optional[str] / Optional[datetime] fields
None == "None"

\* the value of datetime.now(): the claims only need set / not set
Now == "now"

\* `not x` for an Optional[str]: None and the empty string are falsy
IsFalsy(s) == s = None \/ s = ""

\* DOWNLOAD_DIR of main.py, passed as output_dir to the downloader
DOWNLOAD_DIR == "downloads"

\* os.path.join(dir, name) for a relative name
PathJoin(dir, name) == dir \o "/" \o name

\* substring test: `d in s`
Contains(s, d) ==
    \E i \in 1..(Len(s) - Len(d) + 1) : SubSeq(s, i, i + Len(d) - 1) = d

\* ------------------------------------------------------------------------
\* Timestamp parser (core.py, _time_to_seconds)
\* ------------------------------------------------------------------------

DigitChars == "0123456789"

IsDigit(c) == \E i \in 1..10 : SubSeq(DigitChars, i, i) = c

\* DigitVal as it would be with the index of the digit off by one
DigitValOffByOne(c) == (CHOOSE i \in 1..10 : SubSeq(DigitChars, i, i) = c) - 2

DigitVal(c) == (CHOOSE i \in 1..10 : SubSeq(DigitChars, i, i) = c) - 1

Char(s, i) == SubSeq(s, i, i)

\* str.strip(): int() ignores surrounding white space
RECURSIVE LStrip(_)
LStrip(s) ==
    IF Len(s) > 0 /\ Char(s, 1) = " " THEN LStrip(SubSeq(s, 2, Len(s))) ELSE s

RECURSIVE RStrip(_)
RStrip(s) ==
    IF Len(s) > 0 /\ Char(s, Len(s)) = " "
    THEN RStrip(SubSeq(s, 1, Len(s) - 1)) ELSE s

\* value of a string of decimal digits
RECURSIVE DigitsVal(_)
DigitsVal(s) ==
    IF Len(s) = 0 THEN 0
    ELSE DigitsVal(SubSeq(s, 1, Len(s) - 1)) * 10 + DigitVal(Char(s, Len(s)))

AllDigits(s) == Len(s) > 0 /\ \A i \in 1..Len(s) : IsDigit(Char(s, i))

\* int(text) as it would be were the ValueError swallowed and 0 returned
PyIntLenient(text) ==
    LET t == RStrip(LStrip(text))
        signed == Len(t) > 0 /\ Char(t, 1) \in {"-", "+"}
        body == IF signed THEN SubSeq(t, 2, Len(t)) ELSE t
    IN  IF AllDigits(body)
        THEN [ok |-> TRUE,
              val |-> IF signed /\ Char(t, 1) = "-"
                      THEN 0 - DigitsVal(body) ELSE DigitsVal(body)]
        ELSE [ok |-> TRUE, val |-> 0]

\* int(text): optional sign, then one or more digits; anything else raises
\* ValueError
PyInt(text) ==
    LET t == RStrip(LStrip(text))
        signed == Len(t) > 0 /\ Char(t, 1) \in {"-", "+"}
        body == IF signed THEN SubSeq(t, 2, Len(t)) ELSE t
    IN  IF AllDigits(body)
        THEN [ok |-> TRUE,
              val |-> IF signed /\ Char(t, 1) = "-"
                      THEN 0 - DigitsVal(body) ELSE DigitsVal(body)]
        ELSE [ok |-> FALSE, val |-> 0]

\* time_str.split(':')
RECURSIVE Split(_)
Split(s) ==
    IF \E i \in 1..Len(s) : Char(s, i) = ":"
    THEN LET k == CHOOSE i \in 1..Len(s) :
                    /\ Char(s, i) = ":"
                    /\ \A m \in 1..(i - 1) : Char(s, m) # ":"
         IN  <<SubSeq(s, 1, k - 1)>> \o Split(SubSeq(s, k + 1, Len(s)))
    ELSE <<s>>

ParseOk(v) == [ok |-> TRUE, val |-> v, exc |-> None, msg |-> None]

ParseErr(m) ==
    [ok |-> FALSE, val |-> 0, exc |-> "InvalidTimestampError", msg |-> m]

\* _time_to_seconds as it would be with a range check on the minutes and
\* seconds fields (components of 60 and more refused)
time_to_seconds_checked(time_str) ==
    IF IsFalsy(time_str)
    THEN ParseErr("Error parsing timestamp: Timestamp must be a non-empty string")
    ELSE LET parts == Split(time_str)
             ints == [i \in 1..Len(parts) |-> PyInt(parts[i])]
         IN  IF \E i \in 1..Len(parts) : ~ints[i].ok
             THEN ParseErr("Invalid time format. Use HH:MM:SS, MM:SS, or SS")
             ELSE IF \E i \in 2..Len(parts) : ints[i].val >= 60
             THEN ParseErr("Invalid time format. Use HH:MM:SS, MM:SS, or SS")
             ELSE IF Len(parts) = 3
             THEN ParseOk(ints[1].val * 3600 + ints[2].val * 60 + ints[3].val)
             ELSE IF Len(parts) = 2
             THEN ParseOk(ints[1].val * 60 + ints[2].val)
             ELSE IF Len(parts) = 1
             THEN ParseOk(ints[1].val)
             ELSE ParseErr("Error parsing timestamp: Invalid time format")

\* _time_to_seconds: the value, or the InvalidTimestampError that leaves it.
\* An InvalidTimestampError raised inside the try block is itself caught by
\* `except Exception` and raised again with the prefix.
time_to_seconds(time_str) ==
    IF IsFalsy(time_str)
    THEN ParseErr("Error parsing timestamp: Timestamp must be a non-empty string")
    ELSE LET parts == Split(time_str)
             ints == [i \in 1..Len(parts) |-> PyInt(parts[i])]
         IN  IF \E i \in 1..Len(parts) : ~ints[i].ok
             THEN ParseErr("Invalid time format. Use HH:MM:SS, MM:SS, or SS")
             ELSE IF Len(parts) = 3
             THEN ParseOk(ints[1].val * 3600 + ints[2].val * 60 + ints[3].val)
             ELSE IF Len(parts) = 2
             THEN ParseOk(ints[1].val * 60 + ints[2].val)
             ELSE IF Len(parts) = 1
             THEN ParseOk(ints[1].val)
             ELSE ParseErr("Error parsing timestamp: Invalid time format")

\* ------------------------------------------------------------------------
\* Timestamp validator (core.py, _validate_timestamps)
\* ------------------------------------------------------------------------

\* _validate_timestamps as it would be without the test of line 118
validate_timestamps_unbounded(start_seconds, end_seconds, duration) ==
    IF start_seconds >= end_seconds
    THEN "End time must be greater than start time"
    ELSE IF start_seconds < 0
    THEN "Start time cannot be negative"
    ELSE None

\* _validate_timestamps as it would be without the test of line 115
validate_timestamps_unsigned(start_seconds, end_seconds, duration) ==
    IF start_seconds >= end_seconds
    THEN "End time must be greater than start time"
    ELSE IF end_seconds > duration
    THEN "End time (" \o ToString(end_seconds) \o "s) exceeds video duration ("
         \o ToString(duration) \o "s)"
    ELSE None

\* None when the range is accepted, else the TimestampRangeError message
validate_timestamps(start_seconds, end_seconds, duration) ==
    IF start_seconds >= end_seconds
    THEN "End time must be greater than start time"
    ELSE IF start_seconds < 0
    THEN "Start time cannot be negative"
    ELSE IF end_seconds > duration
    THEN "End time (" \o ToString(end_seconds) \o "s) exceeds video duration ("
         \o ToString(duration) \o "s)"
    ELSE None

\* ------------------------------------------------------------------------
\* Requests and the environment
\* ------------------------------------------------------------------------

\* NewJobId as it would be were the id not fresh: every job gets the same one
RepeatedJobId(j) == "job-" \o ToString(1)

\* str(uuid.uuid4()): a fresh id for every submission
NewJobId(j) == "job-" \o ToString(j)

JobIds == {NewJobId(j) : j \in Jobs}

\* the provider's metadata for the URLs a request may name
Urls == {"u1", "u2"}

VideoInfo(url) ==
    IF url = "u1" THEN [title |-> "A", ext |-> "mp4", duration |-> 300]
    ELSE [title |-> "B", ext |-> "mp4", duration |-> 60]

\* (start_time, end_time) texts of a request: a range legal for both videos,
\* an unparsable start, an unparsable end, a range that ends beyond the
\* shorter video
TimeTexts ==
    {<<"0:10", "0:40">>, <<"a:b", "0:40">>, <<"0:10", "1:x">>,
     <<"10", "2:00">>}

\* ClipRequest.filename: absent, or a name the caller chose
Filenames == {None, "B.mp4"}

Requests ==
    {[url |-> u, start_time |-> t[1], end_time |-> t[2], filename |-> f] :
        u \in Urls, t \in TimeTexts, f \in Filenames}

\* the requests of the behaviours in which the records are polled: polling
\* reads jobs/ only, so one video and the default file name suffice
PolledRequests == {r \in Requests : r.url = "u1" /\ r.filename = None}

NoRequest == [url |-> None, start_time |-> None, end_time |-> None,
              filename |-> None]

\* stderr of a failing cutter run
Diagnostics == {"Invalid data found when processing input"}

NoSuchFile == "No such file or directory"

SameFile == "Output same as Input"

\* f"clip_{job_id}.mp4"
ClipName(job_id) == "clip_" \o job_id \o ".mp4"

\* f"{video_title}.{video_ext}"
ArtifactName(info) == info.title \o "." \o info.ext

\* every path of the output directory the model can touch
Paths ==
    {PathJoin(DOWNLOAD_DIR, n) :
        n \in {ArtifactName(VideoInfo(u)) : u \in Urls}
              \cup (Filenames \ {None})
              \cup {ClipName(id) : id \in JobIds}}

\* ------------------------------------------------------------------------
\* Job records (main.py, JobStatus) and the files that hold them
\* ------------------------------------------------------------------------

JobStatus(job_id, status) ==
    [job_id |-> job_id, status |-> status, message |-> None,
     download_url |-> None, created_at |-> Now, completed_at |-> None]

NoRecord ==
    [job_id |-> None, status |-> None, message |-> None,
     download_url |-> None, created_at |-> None, completed_at |-> None]

\* a file of jobs/: missing, opened for writing and still empty, or holding
\* the JSON of one record
Absent == [kind |-> "absent", rec |-> NoRecord]

Empty == [kind |-> "empty", rec |-> NoRecord]

Json(rec) == [kind |-> "json", rec |-> rec]

IsTerminal(rec) == rec.status \in {"completed", "failed"}

\* a file of downloads/: nothing, the full media fetched by a job, or the
\* trimmed output of a job
NoFile == [kind |-> "none", by |-> 0]

FullMedia(j) == [kind |-> "full", by |-> j]

Clip(j) == [kind |-> "clip", by |-> j]

\* the result of download_segment: nothing yet, the returned path, or the
\* exception that leaves it
NoOutcome == [kind |-> "none", path |-> None, exc |-> None, msg |-> None]

Returned(path) == [kind |-> "ok", path |-> path, exc |-> None, msg |-> None]

Raised(exc, msg) == [kind |-> "raise", path |-> None, exc |-> exc, msg |-> msg]

\* the cutter run of a job
NoCut == [ran |-> FALSE, input |-> None, inputExists |-> FALSE, ss |-> 0,
          t |-> 0, output |-> None, exit |-> None, stderr |-> None]

\* the last answer of get_clip_status
NoPoll == [job_id |-> None, code |-> 0, body |-> NoRecord]

\* ------------------------------------------------------------------------
\* State
\* ------------------------------------------------------------------------

VARIABLES
    pc,              \* position of job j's task
    req,             \* the ClipRequest of job j
    job_status,      \* the JobStatus object of process_video_clip
    jobFile,         \* jobs/<id>.json, by job id
    files,           \* downloads/, by path
    start_seconds,   \* locals of download_segment
    end_seconds,
    info,
    full_video_path,
    output_path,
    cut,             \* the cutter run of job j
    outcome,         \* how download_segment (or the constructor) ended
    deleteFailed,    \* os.remove raised in the cleanup of job j
    calls,           \* what job j has called so far, in order
    statusHist,      \* statuses written to jobs/<id>.json, in order
    lastPoll,        \* the last answer of get_clip_status
    polledTerminal,  \* the first terminal record a poll of the id returned
    time_str,        \* the argument of a call of _time_to_seconds
    components,      \* the components time_str was written from
    parsed,          \* what that call returned or raised
    range,           \* the arguments of a call of _validate_timestamps
    verdict          \* what that call returned or raised

vars == <<pc, req, job_status, jobFile, files, start_seconds, end_seconds,
          info, full_video_path, output_path, cut, outcome, deleteFailed,
          calls, statusHist, lastPoll, polledTerminal, time_str, components,
          parsed, range, verdict>>

segVars == <<start_seconds, end_seconds, info, full_video_path, output_path,
             cut, outcome, deleteFailed, calls>>

pollVars == <<lastPoll, polledTerminal>>

pureVars == <<time_str, components, parsed, range, verdict>>

\* no call of _time_to_seconds or _validate_timestamps made yet
NotParsed == [ok |-> FALSE, val |-> 0, exc |-> None, msg |-> None]

NoRange == [start_seconds |-> 0, end_seconds |-> 0, duration |-> 0]

NotValidated == "NotValidated"

NoInfo == [title |-> None, ext |-> None, duration |-> 0]

\* the state of the service before any request
ServiceInit ==
    /\ pc = [j \in Jobs |-> "idle"]
    /\ req = [j \in Jobs |-> NoRequest]
    /\ job_status = [j \in Jobs |-> NoRecord]
    /\ jobFile = [id \in JobIds |-> Absent]
    /\ files = [p \in Paths |-> NoFile]
    /\ start_seconds = [j \in Jobs |-> 0]
    /\ end_seconds = [j \in Jobs |-> 0]
    /\ info = [j \in Jobs |-> NoInfo]
    /\ full_video_path = [j \in Jobs |-> None]
    /\ output_path = [j \in Jobs |-> None]
    /\ cut = [j \in Jobs |-> NoCut]
    /\ outcome = [j \in Jobs |-> NoOutcome]
    /\ deleteFailed = [j \in Jobs |-> FALSE]
    /\ calls = [j \in Jobs |-> <<>>]
    /\ statusHist = [id \in JobIds |-> <<>>]
    /\ lastPoll = NoPoll
    /\ polledTerminal = [id \in JobIds |-> NoRecord]

Init ==
    /\ ServiceInit
    /\ time_str = None
    /\ components = <<>>
    /\ parsed = NotParsed
    /\ range = NoRange
    /\ verdict = NotValidated

\* ------------------------------------------------------------------------
\* Request surface: job submission (main.py, create_clip)
\* ------------------------------------------------------------------------

\* POST /api/clips: draws a fresh id, schedules process_video_clip as a
\* background task and returns JobStatus(job_id, "queued").  Nothing is
\* written to jobs/.  Ids are numbered in the order of submission.
CreateClip(j, r) ==
    /\ pc[j] = "idle"
    /\ \A i \in Jobs : i < j => pc[i] # "idle"
    /\ pc' = [pc EXCEPT ![j] = "queued"]
    /\ req' = [req EXCEPT ![j] = r]
    /\ UNCHANGED <<job_status, jobFile, files, statusHist>>
    /\ UNCHANGED segVars
    /\ UNCHANGED pollVars
    /\ UNCHANGED pureVars

\* the id of job j is known to the caller once create_clip has returned
Submitted(id) == \E j \in Jobs : NewJobId(j) = id /\ pc[j] # "idle"

\* ------------------------------------------------------------------------
\* Record store (main.py, save_job_status)
\* ------------------------------------------------------------------------

\* open(path, "w"): truncates (or creates) the file, or raises OSError and
\* leaves the store as it was.  The exception is handled nowhere in
\* process_video_clip, so the task ends with it.
OpenForWrite(j, next) ==
    \/ /\ jobFile' = [jobFile EXCEPT ![job_status'[j].job_id] = Empty]
       /\ pc' = [pc EXCEPT ![j] = next]
    \/ /\ UNCHANGED jobFile
       /\ pc' = [pc EXCEPT ![j] = "crashed"]

\* where the task continues after a completed save
AfterSave(stage) == IF stage = "save1" THEN "construct" ELSE "done"

\* json.dump and the close of the `with` block: the record replaces the empty
\* file, or the write raises and the file stays as it is
SaveWrite(j) ==
    /\ pc[j] \in {"save1", "save2"}
    /\ \/ /\ jobFile' = [jobFile EXCEPT ![job_status[j].job_id] =
                                            Json(job_status[j])]
          /\ statusHist' = [statusHist EXCEPT ![job_status[j].job_id] =
                                            Append(@, job_status[j].status)]
          /\ pc' = [pc EXCEPT ![j] = AfterSave(pc[j])]
       \/ /\ pc' = [pc EXCEPT ![j] = "crashed"]
          /\ UNCHANGED <<jobFile, statusHist>>
    /\ UNCHANGED <<req, job_status, files>>
    /\ UNCHANGED segVars
    /\ UNCHANGED pollVars
    /\ UNCHANGED pureVars

\* ------------------------------------------------------------------------
\* Job tracker (main.py, process_video_clip)
\* ------------------------------------------------------------------------

\* lines 56-61: the task starts, builds its JobStatus and opens the record
BeginProcess(j) ==
    /\ pc[j] = "queued"
    /\ job_status' = [job_status EXCEPT ![j] =
                          JobStatus(NewJobId(j), "processing")]
    /\ OpenForWrite(j, "save1")
    /\ UNCHANGED <<req, files, statusHist>>
    /\ UNCHANGED segVars
    /\ UNCHANGED pollVars
    /\ UNCHANGED pureVars

\* lines 64-68: YouTubeSegmentDownloader(output_dir) sets up logging and
\* probes ffmpeg; then the filename defaults to clip_<id>.mp4
Construct(j) ==
    /\ pc[j] = "construct"
    /\ \/ /\ req' = [req EXCEPT ![j].filename =
                        IF IsFalsy(@) THEN ClipName(job_status[j].job_id)
                        ELSE @]
          /\ pc' = [pc EXCEPT ![j] = "parse"]
          /\ UNCHANGED outcome
       \/ /\ \E e \in {Raised("FFmpegError",
                              "FFmpeg is not installed or not accessible"),
                       Raised("PermissionError",
                              "Permission denied: youtube_downloader.log")} :
                outcome' = [outcome EXCEPT ![j] = e]
          /\ pc' = [pc EXCEPT ![j] = "finish"]
          /\ UNCHANGED req
    /\ UNCHANGED <<job_status, jobFile, files, statusHist, start_seconds,
                   end_seconds, info, full_video_path, output_path, cut,
                   deleteFailed, calls>>
    /\ UNCHANGED pollVars
    /\ UNCHANGED pureVars

\* the exception classes of the first except clause (line 82)
ExtractorErrors ==
    {"InvalidTimestampError", "TimestampRangeError", "VideoUnavailableError",
     "FFmpegError", "YouTubeDownloaderError"}

\* lines 78-80
CompletedStatus(js, filename) ==
    [js EXCEPT !.status = "completed",
               !.download_url = "/download/" \o filename,
               !.completed_at = Now]

\* FailedStatus as it would be were completed_at left out of the handler
FailedStatusUntimed(js, message) ==
    [js EXCEPT !.status = "failed",
               !.message = message]

\* lines 84-86 and 89-91
FailedStatus(js, message) ==
    [js EXCEPT !.status = "failed",
               !.message = message,
               !.completed_at = Now]

\* lines 77-94: the result of the extractor becomes the terminal status, and
\* the finally block opens the record for the last write
Finish(j) ==
    /\ pc[j] = "finish"
    /\ job_status' = [job_status EXCEPT ![j] =
          IF outcome[j].kind = "ok"
          THEN CompletedStatus(@, req[j].filename)
          ELSE IF outcome[j].exc \in ExtractorErrors
          THEN FailedStatus(@, outcome[j].msg)
          ELSE FailedStatus(@, "Unexpected error: " \o outcome[j].msg)]
    /\ OpenForWrite(j, "save2")
    /\ UNCHANGED <<req, files, statusHist>>
    /\ UNCHANGED segVars
    /\ UNCHANGED pollVars
    /\ UNCHANGED pureVars

\* ------------------------------------------------------------------------
\* Segment extractor (core.py, download_segment)
\* ------------------------------------------------------------------------

\* the exception as it would leave download_segment without the except
\* clause of lines 215-216
Unwrapped(m) == Raised("ConnectionError", m)

\* line 216: any exception outside the four named kinds is wrapped
Wrapped(m) ==
    Raised("YouTubeDownloaderError", "Error downloading video segment: " \o m)

\* line 184
Unavailable(m) ==
    Raised("VideoUnavailableError", "Failed to access video: " \o m)

\* job j enters download_segment, or calls the provider, the cutter or
\* os.remove
Call(j, what) == calls' = [calls EXCEPT ![j] = Append(@, what)]

\* an exception takes the task to the finally block
Fail(j, e) ==
    /\ outcome' = [outcome EXCEPT ![j] = e]
    /\ pc' = [pc EXCEPT ![j] = "cleanup"]

\* lines 148-149
ParseTimes(j) ==
    /\ pc[j] = "parse"
    /\ Call(j, "download_segment")
    /\ LET s == time_to_seconds(req[j].start_time)
           e == time_to_seconds(req[j].end_time)
       IN  IF ~s.ok
           THEN Fail(j, Raised(s.exc, s.msg))
                /\ UNCHANGED <<start_seconds, end_seconds>>
           ELSE IF ~e.ok
           THEN Fail(j, Raised(e.exc, e.msg))
                /\ start_seconds' = [start_seconds EXCEPT ![j] = s.val]
                /\ UNCHANGED end_seconds
           ELSE /\ start_seconds' = [start_seconds EXCEPT ![j] = s.val]
                /\ end_seconds' = [end_seconds EXCEPT ![j] = e.val]
                /\ pc' = [pc EXCEPT ![j] = "extract"]
                /\ UNCHANGED outcome
    /\ UNCHANGED <<req, job_status, jobFile, files, statusHist, info,
                   full_video_path, output_path, cut, deleteFailed>>
    /\ UNCHANGED pollVars
    /\ UNCHANGED pureVars

\* what ydl.extract_info(url, download=False) may return: the metadata,
\* nothing, or metadata without a duration (None and 0 are both falsy)
ProviderAnswers(url) ==
    {VideoInfo(url), NoInfo, [VideoInfo(url) EXCEPT !.duration = 0]}

\* messages of the exceptions the provider and the system calls raise
ProviderErrors == {"Video unavailable"}

OtherErrors == {"Connection reset"}

\* `not all([video_title, video_ext, duration])`
MetadataMissing(i) == IsFalsy(i.title) \/ IsFalsy(i.ext) \/ i.duration = 0

\* lines 161-177 and 183-184: metadata query, metadata checks, range
\* validation; the artifact path is recorded only after all of them passed
ExtractInfo(j) ==
    /\ pc[j] = "extract"
    /\ Call(j, "extract_info")
    /\ \/ \E i \in ProviderAnswers(req[j].url) :
            IF i = NoInfo
            THEN Fail(j, Raised("VideoUnavailableError",
                                "Could not retrieve video information"))
                 /\ UNCHANGED <<info, full_video_path>>
            ELSE IF MetadataMissing(i)
            THEN Fail(j, Raised("VideoUnavailableError",
                                "Missing video metadata"))
                 /\ UNCHANGED <<info, full_video_path>>
            ELSE LET v == validate_timestamps(start_seconds[j],
                                              end_seconds[j], i.duration)
                 IN  IF v # None
                     THEN Fail(j, Raised("TimestampRangeError", v))
                          /\ info' = [info EXCEPT ![j] = i]
                          /\ UNCHANGED full_video_path
                     ELSE /\ info' = [info EXCEPT ![j] = i]
                          /\ full_video_path' =
                               [full_video_path EXCEPT ![j] =
                                   PathJoin(DOWNLOAD_DIR, ArtifactName(i))]
                          /\ pc' = [pc EXCEPT ![j] = "download"]
                          /\ UNCHANGED outcome
       \/ /\ \E m \in ProviderErrors : Fail(j, Unavailable(m))
          /\ UNCHANGED <<info, full_video_path>>
       \/ /\ \E m \in OtherErrors : Fail(j, Wrapped(m))
          /\ UNCHANGED <<info, full_video_path>>
    /\ UNCHANGED <<req, job_status, jobFile, files, statusHist, start_seconds,
                   end_seconds, output_path, cut, deleteFailed>>
    /\ UNCHANGED pollVars
    /\ UNCHANGED pureVars

\* line 181, ydl.download([url]) with outtmpl '<output_dir>/%(title)s.%(ext)s':
\* the provider writes the file the template names.  When a file of that name
\* is already there the provider may keep it instead of fetching again.  A
\* failing fetch may or may not leave the file behind.
Download(j) ==
    /\ pc[j] = "download"
    /\ Call(j, "download")
    /\ LET p == full_video_path[j]
           written == [files EXCEPT ![p] = FullMedia(j)]
       IN  \/ /\ files' \in {written} \cup
                            (IF files[p] # NoFile THEN {files} ELSE {})
              /\ pc' = [pc EXCEPT ![j] = "cut"]
              /\ UNCHANGED outcome
           \/ /\ files' \in {written, files}
              /\ \E m \in ProviderErrors : Fail(j, Unavailable(m))
           \/ /\ UNCHANGED files
              /\ \E m \in OtherErrors : Fail(j, Wrapped(m))
    /\ UNCHANGED <<req, job_status, jobFile, statusHist, start_seconds,
                   end_seconds, info, full_video_path, output_path, cut,
                   deleteFailed>>
    /\ UNCHANGED pollVars
    /\ UNCHANGED pureVars

\* lines 187-189: the name of the trimmed file
OutputName(output_filename, i) ==
    IF IsFalsy(output_filename)
    THEN i.title \o "_" \o Now \o "_segment." \o i.ext
    ELSE output_filename

\* the run of the cutter as it would be were the end time passed to -t
CutterRunToEnd(j, out, exit, stderr) ==
    [ran |-> TRUE, input |-> full_video_path[j],
     inputExists |-> files[full_video_path[j]] # NoFile,
     ss |-> start_seconds[j], t |-> end_seconds[j],
     output |-> out, exit |-> exit, stderr |-> stderr]

\* the run of the cutter, lines 195-203: its arguments and how it ended
CutterRun(j, out, exit, stderr) ==
    [ran |-> TRUE, input |-> full_video_path[j],
     inputExists |-> files[full_video_path[j]] # NoFile,
     ss |-> start_seconds[j], t |-> end_seconds[j] - start_seconds[j],
     output |-> out, exit |-> exit, stderr |-> stderr]

\* lines 186-211: the cutter reads the artifact and writes the trimmed file.
\* It exits non-zero when its input is missing or is its own output, and may
\* do so on any input; subprocess.run itself may raise (OSError).
Cut(j) ==
    /\ pc[j] = "cut"
    /\ LET out == PathJoin(DOWNLOAD_DIR, OutputName(req[j].filename, info[j]))
           in == full_video_path[j]
           nonzero(d) ==
               /\ cut' = [cut EXCEPT ![j] = CutterRun(j, out, "nonzero", d)]
               /\ Call(j, "ffmpeg")
               /\ outcome' = [outcome EXCEPT ![j] =
                                 Raised("FFmpegError", "FFmpeg error: " \o d)]
               /\ UNCHANGED files
       IN  /\ output_path' = [output_path EXCEPT ![j] = out]
           /\ IF files[in] = NoFile
              THEN nonzero(NoSuchFile)
              ELSE IF in = out
              THEN nonzero(SameFile)
              ELSE \/ /\ cut' = [cut EXCEPT ![j] =
                                    CutterRun(j, out, "zero", "")]
                      /\ Call(j, "ffmpeg")
                      /\ files' = [files EXCEPT ![out] = Clip(j)]
                      /\ outcome' = [outcome EXCEPT ![j] = Returned(out)]
                   \/ \E d \in Diagnostics : nonzero(d)
                   \/ /\ \E m \in OtherErrors :
                            outcome' = [outcome EXCEPT ![j] = Wrapped(m)]
                      /\ UNCHANGED <<cut, files, calls>>
    /\ pc' = [pc EXCEPT ![j] = "cleanup"]
    /\ UNCHANGED <<req, job_status, jobFile, statusHist, start_seconds,
                   end_seconds, info, full_video_path, deleteFailed>>
    /\ UNCHANGED pollVars
    /\ UNCHANGED pureVars

\* CleanupNeeded as it would be were the deletion placed after the cutter
\* call instead of in the finally block: reached on a normal return only
CleanupNeededOnReturn(j) ==
    /\ ~IsFalsy(full_video_path[j])
    /\ files[full_video_path[j]] # NoFile
    /\ outcome[j].kind = "ok"

\* line 219: `full_video_path and os.path.exists(full_video_path)`
CleanupNeeded(j) ==
    /\ ~IsFalsy(full_video_path[j])
    /\ files[full_video_path[j]] # NoFile

\* line 219, the test of the finally block
CleanupCheck(j) ==
    /\ pc[j] = "cleanup"
    /\ pc' = [pc EXCEPT ![j] = IF CleanupNeeded(j) THEN "remove" ELSE "finish"]
    /\ UNCHANGED <<req, job_status, jobFile, files, statusHist>>
    /\ UNCHANGED segVars
    /\ UNCHANGED pollVars
    /\ UNCHANGED pureVars

\* the deletion as it would be without the try block of lines 220-223: the
\* exception of os.remove replaces the result of the invocation
RemoveUnguarded(j) ==
    /\ pc[j] = "remove"
    /\ Call(j, "remove")
    /\ LET p == full_video_path[j]
       IN  IF files[p] = NoFile
           THEN /\ deleteFailed' = [deleteFailed EXCEPT ![j] = TRUE]
                /\ outcome' = [outcome EXCEPT ![j] =
                                  Raised("FileNotFoundError", NoSuchFile)]
                /\ UNCHANGED files
           ELSE \/ /\ files' = [files EXCEPT ![p] = NoFile]
                   /\ UNCHANGED <<deleteFailed, outcome>>
                \/ /\ deleteFailed' = [deleteFailed EXCEPT ![j] = TRUE]
                   /\ outcome' = [outcome EXCEPT ![j] =
                                     Raised("PermissionError",
                                            "Permission denied")]
                   /\ UNCHANGED files
    /\ pc' = [pc EXCEPT ![j] = "finish"]
    /\ UNCHANGED <<req, job_status, jobFile, statusHist, start_seconds,
                   end_seconds, info, full_video_path, output_path, cut>>
    /\ UNCHANGED pollVars
    /\ UNCHANGED pureVars

\* lines 220-223: os.remove deletes the file, or raises (the file is gone
\* since the test, or the system refuses); the exception is logged only
Remove(j) ==
    /\ pc[j] = "remove"
    /\ Call(j, "remove")
    /\ LET p == full_video_path[j]
       IN  IF files[p] = NoFile
           THEN /\ deleteFailed' = [deleteFailed EXCEPT ![j] = TRUE]
                /\ UNCHANGED files
           ELSE \/ /\ files' = [files EXCEPT ![p] = NoFile]
                   /\ UNCHANGED deleteFailed
                \/ /\ deleteFailed' = [deleteFailed EXCEPT ![j] = TRUE]
                   /\ UNCHANGED files
    /\ pc' = [pc EXCEPT ![j] = "finish"]
    /\ UNCHANGED <<req, job_status, jobFile, statusHist, start_seconds,
                   end_seconds, info, full_video_path, output_path, cut,
                   outcome>>
    /\ UNCHANGED pollVars
    /\ UNCHANGED pureVars

\* ------------------------------------------------------------------------
\* Request surface: status poll (main.py, get_clip_status)
\* ------------------------------------------------------------------------

\* GET /api/clips/{job_id}: 404 when the file is missing, the record when the
\* file holds one; json.load of a file that was opened for writing and not
\* yet written raises JSONDecodeError, which nothing catches (500)
Response(id) ==
    IF jobFile[id].kind = "absent"
    THEN [job_id |-> id, code |-> 404, body |-> NoRecord]
    ELSE IF jobFile[id].kind = "empty"
    THEN [job_id |-> id, code |-> 500, body |-> NoRecord]
    ELSE [job_id |-> id, code |-> 200, body |-> jobFile[id].rec]

GetClipStatus(id) ==
    /\ Submitted(id)
    /\ lastPoll' = Response(id)
    /\ polledTerminal' =
          [polledTerminal EXCEPT ![id] =
              IF /\ @ = NoRecord
                 /\ Response(id).code = 200
                 /\ IsTerminal(Response(id).body)
              THEN Response(id).body ELSE @]
    /\ UNCHANGED <<pc, req, job_status, jobFile, files, statusHist>>
    /\ UNCHANGED segVars
    /\ UNCHANGED pureVars

\* ------------------------------------------------------------------------
\* Specification
\* ------------------------------------------------------------------------

\* a step of the background task of job j
TaskStep(j) ==
    \/ BeginProcess(j)
    \/ SaveWrite(j)
    \/ Construct(j)
    \/ ParseTimes(j)
    \/ ExtractInfo(j)
    \/ Download(j)
    \/ Cut(j)
    \/ CleanupCheck(j)
    \/ Remove(j)
    \/ Finish(j)

Next ==
    \/ \E j \in Jobs, r \in Requests : CreateClip(j, r)
    \/ \E j \in Jobs : BeginProcess(j)
    \/ \E j \in Jobs : SaveWrite(j)
    \/ \E j \in Jobs : Construct(j)
    \/ \E j \in Jobs : ParseTimes(j)
    \/ \E j \in Jobs : ExtractInfo(j)
    \/ \E j \in Jobs : Download(j)
    \/ \E j \in Jobs : Cut(j)
    \/ \E j \in Jobs : CleanupCheck(j)
    \/ \E j \in Jobs : Remove(j)
    \/ \E j \in Jobs : Finish(j)

\* the jobs and their tasks, the records never polled
Spec == Init /\ [][Next]_vars

PollNext ==
    \/ \E j \in Jobs, r \in PolledRequests : CreateClip(j, r)
    \/ \E j \in Jobs : TaskStep(j)
    \/ \E id \in JobIds : GetClipStatus(id)

\* the jobs, their tasks and a client polling the status of submitted jobs
PollSpec == Init /\ [][PollNext]_vars

\* ------------------------------------------------------------------------
\* The timestamp parser on its own
\* ------------------------------------------------------------------------

\* the components a timestamp text is written from, each with what it
\* denotes: integers (one negative, one with a blank before it, one beyond
\* 59) and texts that are no integer
Components ==
    {[text |-> "0", int |-> TRUE, val |-> 0],
     [text |-> "7", int |-> TRUE, val |-> 7],
     [text |-> "99", int |-> TRUE, val |-> 99],
     [text |-> "-5", int |-> TRUE, val |-> 0 - 5],
     [text |-> " 3", int |-> TRUE, val |-> 3],
     [text |-> "a", int |-> FALSE, val |-> 0],
     [text |-> "1.5", int |-> FALSE, val |-> 0],
     [text |-> "", int |-> FALSE, val |-> 0]}

ComponentSeqs == UNION {[1..n -> Components] : n \in 0..MaxParts}

\* ':'.join(texts)
RECURSIVE Join(_)
Join(cs) ==
    IF Len(cs) = 0 THEN ""
    ELSE IF Len(cs) = 1 THEN cs[1].text
    ELSE cs[1].text \o ":" \o Join(Tail(cs))

ParserInit ==
    /\ ServiceInit
    /\ \E cs \in ComponentSeqs :
          /\ components = cs
          /\ time_str = Join(cs)
    /\ parsed = NotParsed
    /\ range = NoRange
    /\ verdict = NotValidated

\* one call of _time_to_seconds(time_str)
TimeToSeconds ==
    /\ parsed = NotParsed
    /\ time_str # None
    /\ parsed' = time_to_seconds(time_str)
    /\ UNCHANGED <<pc, req, job_status, jobFile, files, statusHist>>
    /\ UNCHANGED segVars
    /\ UNCHANGED pollVars
    /\ UNCHANGED <<time_str, components, range, verdict>>

ParserNext == TimeToSeconds

ParserSpec == ParserInit /\ [][ParserNext]_vars

\* ------------------------------------------------------------------------
\* The timestamp validator on its own
\* ------------------------------------------------------------------------

Ranges ==
    [start_seconds : (0 - 2)..MaxSeconds,
     end_seconds : (0 - 2)..MaxSeconds,
     duration : 0..MaxSeconds]

ValidatorInit ==
    /\ ServiceInit
    /\ time_str = None
    /\ components = <<>>
    /\ parsed = NotParsed
    /\ range \in Ranges
    /\ verdict = NotValidated

\* one call of _validate_timestamps(start_seconds, end_seconds, duration):
\* "ok" when it returns, else the exception that leaves it
ValidateTimestamps ==
    /\ verdict = NotValidated
    /\ verdict' =
          IF validate_timestamps(range.start_seconds, range.end_seconds,
                                 range.duration) = None
          THEN "ok" ELSE "TimestampRangeError"
    /\ UNCHANGED <<pc, req, job_status, jobFile, files, statusHist>>
    /\ UNCHANGED segVars
    /\ UNCHANGED pollVars
    /\ UNCHANGED <<time_str, components, parsed, range>>

ValidatorNext == ValidateTimestamps

ValidatorSpec == ValidatorInit /\ [][ValidatorNext]_vars

\* ------------------------------------------------------------------------
\* Properties
\* ------------------------------------------------------------------------

TypeOK ==
    /\ pc \in [Jobs -> {"idle", "queued", "save1", "construct", "parse",
                        "extract", "download", "cut", "cleanup", "remove",
                        "finish", "save2", "done", "crashed"}]
    /\ \A j \in Jobs : req[j] \in Requests \cup {NoRequest}
                       \/ req[j].filename = ClipName(NewJobId(j))
    /\ \A id \in JobIds : jobFile[id].kind \in {"absent", "empty", "json"}
    /\ \A p \in Paths : files[p].kind \in {"none", "full", "clip"}
    /\ deleteFailed \in [Jobs -> BOOLEAN]

\* the task of job j has ended: process_video_clip returned or raised
TaskEnded(j) == pc[j] \in {"done", "crashed"}

\* job j has been through download_segment and its finally block
SegmentEnded(j) ==
    /\ Len(calls[j]) > 0
    /\ pc[j] \in {"finish", "save2", "done", "crashed"}

Called(j, what) == \E k \in 1..Len(calls[j]) : calls[j][k] = what

\* the full media fetched by job j is on disk
ArtifactOnDisk(j) == \E p \in Paths : files[p] = FullMedia(j)

\* the record jobs/<id>.json holds, NoRecord when it holds none
Persisted(id) == jobFile[id].rec

\* C1: when an invocation of download_segment has finished, on whichever exit
\* path, the full media it fetched is not on disk any more, unless os.remove
\* failed in its cleanup.
C1_ArtifactDeleted ==
    \A j \in Jobs :
        (SegmentEnded(j) /\ ~deleteFailed[j]) => ~ArtifactOnDisk(j)

\* C1, its case: an invocation that fetched the media, then failed, deleted
\* the file without error and has finished
C1_Witness ==
    \E j \in Jobs :
        /\ SegmentEnded(j)
        /\ Called(j, "download")
        /\ Called(j, "remove")
        /\ outcome[j].kind = "raise"
        /\ ~deleteFailed[j]

\* C2: the statuses written to a job's record follow queued -> processing ->
\* (completed | failed): the first one written is queued, processing follows
\* queued only, completed and failed follow processing only.
C2_StatusSequence ==
    \A id \in JobIds :
        LET h == statusHist[id]
        IN  /\ Len(h) > 0 => h[1] = "queued"
            /\ \A k \in 2..Len(h) :
                  \/ h[k - 1] = "queued" /\ h[k] = "processing"
                  \/ h[k - 1] = "processing" /\ h[k] \in {"completed", "failed"}

\* the task of the job with this id has not finished yet
Running(id) == \E j \in Jobs : NewJobId(j) = id /\ ~TaskEnded(j)

\* C3: every poll of an id that create_clip has returned answers with a
\* record, never with not-found, and a poll made before the job completes
\* answers with status queued or processing.
C3_PollFindsRecord ==
    [][\A id \in JobIds :
          (lastPoll' # lastPoll /\ lastPoll'.job_id = id) =>
              /\ lastPoll'.code = 200
              /\ Running(id) =>
                    lastPoll'.body.status \in {"queued", "processing"}]_vars

\* number of terminal statuses written to the record of an id
TerminalWrites(id) ==
    Cardinality({k \in 1..Len(statusHist[id]) :
                    statusHist[id][k] \in {"completed", "failed"}})

\* C4: a job's record becomes terminal at most once and is never written
\* again afterwards; once a poll has returned a terminal record, every later
\* poll of that id returns the same record.
C4_TerminalIsFinal ==
    /\ [](\A id \in JobIds : TerminalWrites(id) <= 1)
    /\ [][\A id \in JobIds :
            /\ (jobFile[id].kind = "json" /\ IsTerminal(Persisted(id))) =>
                  jobFile'[id] = jobFile[id]
            /\ (/\ polledTerminal[id] # NoRecord
                /\ lastPoll' # lastPoll
                /\ lastPoll'.job_id = id) =>
                  /\ lastPoll'.code = 200
                  /\ lastPoll'.body = polledTerminal[id]]_vars

\* C4, its case: a poll has returned the terminal record of one job while the
\* task of another job is still writing records
C4_Witness ==
    \E id \in JobIds :
        /\ polledTerminal[id] # NoRecord
        /\ lastPoll.job_id = id
        /\ lastPoll.body = polledTerminal[id]
        /\ \E j \in Jobs : NewJobId(j) # id /\ pc[j] = "save2"

\* C5: no error escapes process_video_clip; whatever failed during the job,
\* a record write included, the task returns normally and the record is
\* failed with a message.
C5_NoErrorEscapes ==
    \A j \in Jobs :
        /\ pc[j] # "crashed"
        /\ (pc[j] = "done" /\ outcome[j].kind = "raise") =>
              /\ jobFile[NewJobId(j)].kind = "json"
              /\ Persisted(NewJobId(j)).status = "failed"
              /\ Persisted(NewJobId(j)).message # None

\* C6: a poll that runs while the record of its id is being written sees the
\* whole record of before the write or the whole record of after it, and so
\* never ends in an internal error.
C6_NoTornRead == lastPoll.code # 500

\* the paths the task of job j writes to or deletes
PathsOf(j) == {full_video_path[j], output_path[j]} \ {None}

\* job j is between its fetch and the end of its cleanup
Extracting(j) == pc[j] \in {"download", "cut", "cleanup", "remove"}

\* C7: two distinct jobs that execute at the same time write to and delete
\* disjoint sets of paths, whichever videos and file names they request.
C7_DisjointPaths ==
    \A i, j \in Jobs :
        (i # j /\ Extracting(i) /\ Extracting(j)) =>
            PathsOf(i) \cap PathsOf(j) = {}

\* C8: when the cutter exited non-zero in a job, the job's record ends as
\* failed with a message that contains the cutter's stderr, and the full
\* media of the job is not on disk any more.
C8_CutterFailure ==
    \A j \in Jobs :
        (TaskEnded(j) /\ cut[j].ran /\ cut[j].exit = "nonzero") =>
            /\ jobFile[NewJobId(j)].kind = "json"
            /\ Persisted(NewJobId(j)).status = "failed"
            /\ Contains(Persisted(NewJobId(j)).message, cut[j].stderr)
            /\ ~ArtifactOnDisk(j)

\* the fields a record of each status carries
WellFormed(rec) ==
    /\ rec.status \in {"queued", "processing", "completed", "failed"}
    /\ rec.status = "completed" =>
          /\ rec.download_url # None
          /\ rec.completed_at # None
          /\ rec.message = None
    /\ rec.status = "failed" =>
          /\ rec.message # None
          /\ rec.completed_at # None
          /\ rec.download_url = None
    /\ rec.status \in {"queued", "processing"} =>
          /\ rec.message = None
          /\ rec.download_url = None
          /\ rec.completed_at = None

\* C9: every persisted record carries exactly the fields of its status:
\* completed has a download locator and a completion time and no message,
\* failed has a message and a completion time and no locator, queued and
\* processing have none of the three.
C9_RecordFields ==
    \A id \in JobIds : jobFile[id].kind = "json" => WellFormed(Persisted(id))

\* C9, its case: a completed record and a failed record are both persisted
C9_Witness ==
    \E a, b \in JobIds :
        /\ jobFile[a].kind = "json" /\ Persisted(a).status = "completed"
        /\ jobFile[b].kind = "json" /\ Persisted(b).status = "failed"

\* C10: every dispatched job ends with a terminal record: once its task has
\* run to its end, the record is completed or failed, so no job stays queued
\* or processing for ever.
C10_EndsTerminal ==
    \A j \in Jobs :
        TaskEnded(j) =>
            /\ jobFile[NewJobId(j)].kind = "json"
            /\ IsTerminal(Persisted(NewJobId(j)))

\* what the components of a text denote together: the seconds of SS, MM:SS
\* or HH:MM:SS, or no timestamp at all
Denotes(cs) ==
    IF Len(cs) \notin 1..3 \/ \E i \in 1..Len(cs) : ~cs[i].int
    THEN [ok |-> FALSE, val |-> 0]
    ELSE IF Len(cs) = 1 THEN [ok |-> TRUE, val |-> cs[1].val]
    ELSE IF Len(cs) = 2 THEN [ok |-> TRUE, val |-> cs[1].val * 60 + cs[2].val]
    ELSE [ok |-> TRUE,
          val |-> cs[1].val * 3600 + cs[2].val * 60 + cs[3].val]

\* C11: for 1 to 3 integer components _time_to_seconds returns s, m*60+s or
\* h*3600+m*60+s with no range check on the components; for the empty text,
\* a component that is no integer or any other number of components it fails
\* with InvalidTimestampError.
C11_ParseValue ==
    parsed # NotParsed =>
        IF Denotes(components).ok
        THEN parsed.ok /\ parsed.val = Denotes(components).val
        ELSE ~parsed.ok /\ parsed.exc = "InvalidTimestampError"

\* C11, its case: "99:99" has been parsed, to 6039
C11_Witness ==
    /\ time_str = "99:99"
    /\ parsed.ok
    /\ parsed.val = 6039

\* C12 as claimed: whenever _time_to_seconds returns a value, the value is a
\* number of seconds that is not negative.
C12_NonNegative == parsed.ok => parsed.val >= 0

\* C12 as amended: whenever _time_to_seconds returns a value for a text
\* without a minus sign, the value is not negative; a component with a minus
\* sign is accepted and can make the value negative.
C12_NonNegativeUnsigned ==
    (parsed.ok /\ ~Contains(time_str, "-")) => parsed.val >= 0

\* C12, its case: a text of three components without a minus sign has been
\* parsed
C12_Witness ==
    /\ time_str = "7:0:99"
    /\ parsed.ok
    /\ parsed.val = 25299

\* C13: _validate_timestamps returns exactly when 0 <= start < end <=
\* duration, and raises TimestampRangeError in every other case.
C13_ValidRange ==
    verdict # NotValidated =>
        IF /\ 0 <= range.start_seconds
           /\ range.start_seconds < range.end_seconds
           /\ range.end_seconds <= range.duration
        THEN verdict = "ok"
        ELSE verdict = "TimestampRangeError"

\* C13, its case: a range that starts at 0 and ends with the video has been
\* accepted
C13_Witness ==
    /\ verdict = "ok"
    /\ range.start_seconds = 0
    /\ range.end_seconds = range.duration

\* the request texts that are no timestamps, and the seconds the others
\* stand for
Unparsable == {"a:b", "1:x"}

SecondsOf(text) ==
    IF text = "0:10" THEN 10
    ELSE IF text = "0:40" THEN 40
    ELSE IF text = "10" THEN 10
    ELSE 120

\* job j wrote or deleted nothing in downloads/ and called neither the
\* provider nor the cutter
NoSideEffect(j) ==
    /\ ~Called(j, "extract_info")
    /\ ~Called(j, "download")
    /\ ~Called(j, "ffmpeg")
    /\ ~Called(j, "remove")
    /\ \A p \in Paths : files[p].by # j

\* C14: an invocation of download_segment whose start or end text cannot be
\* parsed fails with InvalidTimestampError and has called neither the
\* provider nor the cutter, and has created and deleted no file.
C14_ParseFailureFirst ==
    \A j \in Jobs :
        (/\ Called(j, "download_segment")
         /\ (req[j].start_time \in Unparsable
             \/ req[j].end_time \in Unparsable)) =>
            /\ outcome[j].kind = "raise"
            /\ outcome[j].exc = "InvalidTimestampError"
            /\ full_video_path[j] = None
            /\ NoSideEffect(j)

\* C14, its case: an invocation whose end text is no timestamp has ended,
\* while the other job has its artifact on disk
C14_Witness ==
    \E j \in Jobs :
        /\ SegmentEnded(j)
        /\ req[j].end_time \in Unparsable
        /\ outcome[j].exc = "InvalidTimestampError"
        /\ \E p \in Paths : files[p].kind = "full"

\* the range of job j is legal for the duration the provider reported
RangeLegal(j) ==
    /\ 0 <= start_seconds[j]
    /\ start_seconds[j] < end_seconds[j]
    /\ end_seconds[j] <= info[j].duration

\* C15: an invocation whose range is not legal for the duration the provider
\* reported fails with TimestampRangeError; the fetch is never started, the
\* cutter never invoked, no artifact path recorded and no file deleted by
\* the cleanup.
C15_RangeFailureFirst ==
    \A j \in Jobs :
        (info[j] # NoInfo /\ ~RangeLegal(j)) =>
            /\ outcome[j].kind = "raise"
            /\ outcome[j].exc = "TimestampRangeError"
            /\ full_video_path[j] = None
            /\ ~Called(j, "download")
            /\ ~Called(j, "ffmpeg")
            /\ ~Called(j, "remove")

\* C15, its case: an invocation has ended on a range error while the file
\* that would have been its artifact, fetched by the other job, is on disk
C15_Witness ==
    \E j \in Jobs :
        /\ SegmentEnded(j)
        /\ outcome[j].exc = "TimestampRangeError"
        /\ files[PathJoin(DOWNLOAD_DIR, ArtifactName(info[j]))].kind = "full"

\* C16: whenever the cutter is invoked, its start offset is the start of the
\* request, its duration is end - start and positive, and start + duration
\* does not exceed the duration the provider reported.
C16_CutterArguments ==
    \A j \in Jobs :
        cut[j].ran =>
            /\ cut[j].ss = SecondsOf(req[j].start_time)
            /\ cut[j].t = SecondsOf(req[j].end_time)
                            - SecondsOf(req[j].start_time)
            /\ 0 <= cut[j].ss
            /\ cut[j].t > 0
            /\ cut[j].ss + cut[j].t <= VideoInfo(req[j].url).duration

\* C16, its case: the cutter has run on the longer video from second 10 for
\* 110 seconds
C16_Witness ==
    \E j \in Jobs :
        /\ cut[j].ran
        /\ cut[j].exit = "zero"
        /\ cut[j].ss = 10
        /\ cut[j].t = 110

\* the message is one of the given texts behind some prefix
Carries(msg, texts) == \E m \in texts : Contains(msg, m)

\* C17: every failure of download_segment is one of InvalidTimestampError,
\* TimestampRangeError, VideoUnavailableError, FFmpegError and
\* YouTubeDownloaderError: what the parser, the validator, the provider step
\* and the cutter step raise keeps its kind, and every other exception
\* becomes a YouTubeDownloaderError that carries the original message.
C17_ErrorKinds ==
    \A j \in Jobs :
        (Called(j, "download_segment") /\ outcome[j].kind = "raise") =>
            /\ outcome[j].exc \in ExtractorErrors
            /\ (req[j].start_time \in Unparsable
                \/ req[j].end_time \in Unparsable) =>
                    outcome[j].exc = "InvalidTimestampError"
            /\ (info[j] # NoInfo /\ ~RangeLegal(j)) =>
                    outcome[j].exc = "TimestampRangeError"
            /\ Carries(outcome[j].msg, ProviderErrors) =>
                    outcome[j].exc = "VideoUnavailableError"
            /\ (cut[j].ran /\ cut[j].exit = "nonzero") =>
                    /\ outcome[j].exc = "FFmpegError"
                    /\ Contains(outcome[j].msg, cut[j].stderr)
            /\ Carries(outcome[j].msg, OtherErrors) <=>
                    outcome[j].exc = "YouTubeDownloaderError"

\* C17, its case: an invocation has ended on an exception of none of the
\* four kinds, raised after the fetch
C17_Witness ==
    \E j \in Jobs :
        /\ SegmentEnded(j)
        /\ Called(j, "download")
        /\ outcome[j].exc = "YouTubeDownloaderError"
        /\ Carries(outcome[j].msg, OtherErrors)

\* the terminal status that belongs to the result of the extractor
StatusOf(o) == IF o.kind = "ok" THEN "completed" ELSE "failed"

\* C18: a failure of os.remove in the cleanup changes nothing of the result:
\* the invocation returns the same path or fails with the same error as it
\* had before the deletion, and the job gets the terminal status of that
\* result.
C18_CleanupNeverMasks ==
    /\ [][\A j \in Jobs :
            (pc[j] = "remove" /\ pc'[j] # "remove") =>
                /\ outcome'[j] = outcome[j]
                /\ pc'[j] = "finish"]_vars
    /\ [](\A j \in Jobs :
            (deleteFailed[j] /\ pc[j] \in {"save2", "done"}) =>
                /\ job_status[j].status = StatusOf(outcome[j])
                /\ outcome[j].kind = "ok" =>
                      /\ outcome[j].path = output_path[j]
                      /\ cut[j].exit = "zero"
                /\ outcome[j].kind = "raise" =>
                      job_status[j].message = outcome[j].msg
                /\ pc[j] = "done" =>
                      Persisted(NewJobId(j)) = job_status[j])

\* C18, its case: os.remove failed, the artifact is still on disk, and the
\* job is completed all the same
C18_Witness ==
    \E j \in Jobs :
        /\ deleteFailed[j]
        /\ pc[j] = "done"
        /\ files[full_video_path[j]] = FullMedia(j)
        /\ Persisted(NewJobId(j)).status = "completed"

\* C19: when a completed record is written, the trimmed file its locator
\* names is in the output directory, and no step of any job removes or
\* replaces the trimmed output of a job, whatever file names the callers
\* chose.
C19_OutputExists ==
    [][/\ \A j \in Jobs :
            (/\ pc[j] = "save2"
             /\ pc'[j] = "done"
             /\ job_status[j].status = "completed") =>
                files[PathJoin(DOWNLOAD_DIR, req[j].filename)] = Clip(j)
       /\ \A p \in Paths :
            files[p].kind = "clip" => files'[p].kind = "clip"]_vars

\* C20: whenever a job invokes the cutter, the artifact it passes as input
\* is on disk, under every interleaving of the jobs.
C20_InputExists ==
    \A j \in Jobs : cut[j].ran => cut[j].inputExists

====
